---------------------------- MODULE Spec2Model ----------------------------
(***************************************************************************)
(* BgpCompare: binary set operations on two collections of IP(v6) subnets. *)
(*                                                                         *)
(* The module models IPAddress.h (the prefix arithmetic of IPv4 and IPv6)  *)
(* and BgpCompare.cpp (add, traverse, process).  Addresses are naturals;   *)
(* the machine words keep their modular arithmetic but are narrowed: a     *)
(* uint32_t has Bits32 bits and a uint64_t has Bits64 bits, so an IPv4     *)
(* address has Bits32 bits and an IPv6 address (network, host) 2 * Bits64. *)
(*                                                                         *)
(* Three specifications share the variables:                               *)
(*   Spec       process<T>(fileA, fileB, kernel), one action per marker    *)
(*   SpecAdd    add<T>(start, stop), one action per iteration of its loop  *)
(*   SpecArith  one call of network_zeros / network_ones / next /          *)
(*              previous / InsertAdapter with an arbitrary prefix          *)
(***************************************************************************)
EXTENDS Integers, Sequences, FiniteSets, Bags, TLC

\* Width of the model's uint32_t (IPv4::value, IPv4::bit_length).
Bits32 == 3
\* Width of the model's uint64_t (IPv6::network, IPv6::host); IPv6::bit_length
\* is twice this.
Bits64 == 2
\* Most lines matched in one input file of process<IPv4>.
MaxBlocks4 == 2
\* Most lines matched in one input file of process<IPv6>.
MaxBlocks6 == 1

VARIABLES
    T,          \* the address class the templates are instantiated with
    pc,         \* position of the run
    call,       \* the call under study and its arguments
    kernel,     \* process: the ComparisonKernel
    fileA,      \* process: IPNodes matched in file1, in any order
    fileB,      \* process: IPNodes matched in file2
    markers,    \* process/traverse: the markers from iter to stop (a bag)
    A,          \* traverse: batch_data A  [count, inside, start]
    B,          \* traverse: batch_data B
    open,       \* traverse: the local `open` of the last iteration
    out,        \* what the output callbacks received, in order
    start,      \* add: parameter start (the cursor)
    stop,       \* add: parameter stop
    result      \* SpecArith: what the call returned or threw

vars == <<T, pc, call, kernel, fileA, fileB, markers, A, B, open, out,
          start, stop, result>>

Families == {"IPv4", "IPv6"}

-----------------------------------------------------------------------------
(* Machine words *)

Pow2(n) == 2 ^ n

\* 0xffffffff / 0xffffffffffffffff in a word of w bits
AllOnes(w) == Pow2(w) - 1

RECURSIVE BitAnd(_, _)
BitAnd(a, b) ==
    IF a = 0 \/ b = 0 THEN 0
    ELSE (a % 2) * (b % 2) + 2 * BitAnd(a \div 2, b \div 2)

RECURSIVE BitOr(_, _)
BitOr(a, b) ==
    IF a = 0 THEN b
    ELSE IF b = 0 THEN a
    ELSE (IF a % 2 = 1 \/ b % 2 = 1 THEN 1 ELSE 0) + 2 * BitOr(a \div 2, b \div 2)

\* ~a in a word of w bits
BitNot(a, w) == AllOnes(w) - a

\* a << s in a word of w bits, 0 <= s < w (any other count is undefined)
Shl(a, s, w) == (a * Pow2(s)) % Pow2(w)

-----------------------------------------------------------------------------
(* class IPv4 *)

IPv4_bit_length == Bits32

IPv4_network_zeros(value, prefix) ==
    IF prefix = 0 THEN 0
    ELSE BitAnd(value, Shl(AllOnes(Bits32), Bits32 - prefix, Bits32))

IPv4_network_ones(value, prefix) ==
    IF prefix = 0 THEN AllOnes(Bits32)
    ELSE BitOr(value, BitNot(Shl(AllOnes(Bits32), Bits32 - prefix, Bits32), Bits32))

\* value + (1 << (32 - prefix)), for 1 <= prefix <= bit_length
IPv4_next(value, prefix) == (value + Pow2(Bits32 - prefix)) % Pow2(Bits32)

\* value - (1 << (32 - prefix)), for 1 <= prefix <= bit_length
IPv4_previous(value, prefix) ==
    (value + Pow2(Bits32) - Pow2(Bits32 - prefix)) % Pow2(Bits32)

IPv4_lt(a, b) == a < b

IPv4_gt(a, b) == a > b

IPv4_le(a, b) == a <= b

IPv4_eq(a, b) == a = b

-----------------------------------------------------------------------------
(* class IPv6: an address is network * 2^Bits64 + host *)

IPv6_bit_length == 2 * Bits64

network(a) == a \div Pow2(Bits64)

host(a) == a % Pow2(Bits64)

IPv6(network_, host_) == network_ * Pow2(Bits64) + host_

IPv6_network_zeros(a, prefix) ==
    IF prefix = 0 THEN IPv6(0, 0)
    ELSE IF prefix > Bits64
    THEN IPv6(network(a),
              BitAnd(host(a), Shl(AllOnes(Bits64), IPv6_bit_length - prefix, Bits64)))
    ELSE IPv6(BitAnd(network(a), Shl(AllOnes(Bits64), Bits64 - prefix, Bits64)), 0)

IPv6_network_ones(a, prefix) ==
    IF prefix = 0 THEN IPv6(AllOnes(Bits64), AllOnes(Bits64))
    ELSE IF prefix > Bits64
    THEN IPv6(network(a),
              BitOr(host(a),
                    BitNot(Shl(AllOnes(Bits64), IPv6_bit_length - prefix, Bits64), Bits64)))
    ELSE IPv6(BitOr(network(a),
                    BitNot(Shl(AllOnes(Bits64), Bits64 - prefix, Bits64), Bits64)),
              AllOnes(Bits64))

\* for 1 <= prefix <= bit_length
IPv6_next(a, prefix) ==
    IF prefix <= Bits64
    THEN IPv6((network(a) + Shl(1, Bits64 - prefix, Bits64)) % Pow2(Bits64), host(a))
    ELSE LET newhost == (host(a) + Shl(1, IPv6_bit_length - prefix, Bits64)) % Pow2(Bits64)
         IN  IPv6((network(a) + (IF newhost < host(a) THEN 1 ELSE 0)) % Pow2(Bits64),
                  newhost)

\* for 1 <= prefix <= bit_length
IPv6_previous(a, prefix) ==
    IF prefix <= Bits64
    THEN IPv6((network(a) + Pow2(Bits64) - Shl(1, Bits64 - prefix, Bits64)) % Pow2(Bits64),
              host(a))
    ELSE LET newhost == (host(a) + Pow2(Bits64)
                           - Shl(1, IPv6_bit_length - prefix, Bits64)) % Pow2(Bits64)
         IN  IPv6((network(a) + Pow2(Bits64)
                     - (IF newhost > host(a) THEN 1 ELSE 0)) % Pow2(Bits64),
                  newhost)

IPv6_lt(a, b) ==
    (network(a) < network(b)) \/ (network(a) = network(b) /\ host(a) < host(b))

IPv6_gt(a, b) ==
    (network(a) > network(b)) \/ (network(a) = network(b) /\ host(a) > host(b))

IPv6_le(a, b) == ~ IPv6_gt(a, b)

IPv6_eq(a, b) == (network(a) = network(b)) /\ (host(a) = host(b))

-----------------------------------------------------------------------------
(* The members a template parameter T provides *)

bit_length(t) == IF t = "IPv4" THEN IPv4_bit_length ELSE IPv6_bit_length

\* every value of class t
Address(t) == 0 .. (Pow2(bit_length(t)) - 1)

\* T(): the default-constructed address
DefaultAddress == 0

network_zeros(t, a, prefix) ==
    IF t = "IPv4" THEN IPv4_network_zeros(a, prefix) ELSE IPv6_network_zeros(a, prefix)

network_ones(t, a, prefix) ==
    IF t = "IPv4" THEN IPv4_network_ones(a, prefix) ELSE IPv6_network_ones(a, prefix)

\* a.next(): prefix defaults to bit_length
next(t, a) ==
    IF t = "IPv4" THEN IPv4_next(a, IPv4_bit_length) ELSE IPv6_next(a, IPv6_bit_length)

\* a.previous(): prefix defaults to bit_length
previous(t, a) ==
    IF t = "IPv4" THEN IPv4_previous(a, IPv4_bit_length)
    ELSE IPv6_previous(a, IPv6_bit_length)

lt(t, a, b) == IF t = "IPv4" THEN IPv4_lt(a, b) ELSE IPv6_lt(a, b)

le(t, a, b) == IF t = "IPv4" THEN IPv4_le(a, b) ELSE IPv6_le(a, b)

eq(t, a, b) == IF t = "IPv4" THEN IPv4_eq(a, b) ELSE IPv6_eq(a, b)

IPNode(ip_, prefix_) == [ip |-> ip_, prefix |-> prefix_]

-----------------------------------------------------------------------------
(* add<T>(start, stop, callback) *)

\* add_fits without the test that start is aligned at i
add_fits_unaligned(t, start_, stop_, i) ==
    le(t, network_ones(t, start_, i), stop_)

\* the test of the inner loop for one i
add_fits(t, start_, stop_, i) ==
    /\ eq(t, network_zeros(t, start_, i), start_)
    /\ le(t, network_ones(t, start_, i), stop_)

\* add_prefix with the inner loop counting down from bit_length
add_prefix_downward(t, start_, stop_) ==
    CHOOSE i \in 0 .. bit_length(t) :
        /\ add_fits(t, start_, stop_, i)
        /\ \A j \in (i + 1) .. bit_length(t) : ~ add_fits(t, start_, stop_, j)

\* the i at which `for (int i=0; i <= T::bit_length; i++)` breaks: the first
\* that fits.  i = bit_length fits whenever start < stop.
add_prefix(t, start_, stop_) ==
    CHOOSE i \in 0 .. bit_length(t) :
        /\ add_fits(t, start_, stop_, i)
        /\ \A j \in 0 .. (i - 1) : ~ add_fits(t, start_, stop_, j)

\* add_at_top without the test
add_at_top_unchecked(t, start_, i) == FALSE

\* "We have reached the top of the IP address space"
add_at_top(t, start_, i) ==
    eq(t, network_ones(t, start_, i), network_ones(t, start_, 0))

\* start = start.network_ones(i).next()
add_advance(t, start_, i) == next(t, network_ones(t, start_, i))

\* the loop condition
add_continues(t, start_, stop_) == lt(t, start_, stop_)

\* The IPNodes add hands to its callback, in order.
RECURSIVE add(_, _, _)
add(t, start_, stop_) ==
    IF ~ add_continues(t, start_, stop_) THEN <<>>
    ELSE LET i == add_prefix(t, start_, stop_)
         IN  IF add_at_top(t, start_, i) THEN << IPNode(start_, i) >>
             ELSE << IPNode(start_, i) >> \o add(t, add_advance(t, start_, i), stop_)


\* What an output callback is handed: DiffAdapter prints its prefix_ before the
\* node, SimpleAdapter prints the node alone (tag "").
Delivered(tag, node) == [tag |-> tag, ip |-> node.ip, prefix |-> node.prefix]

RECURSIVE DeliverAll(_, _)
DeliverAll(tag, nodes) ==
    IF nodes = <<>> THEN <<>>
    ELSE << Delivered(tag, Head(nodes)) >> \o DeliverAll(tag, Tail(nodes))

\* batch_data(callback_): count(0), inside(false), start default-constructed
batch_data == [count |-> 0, inside |-> FALSE, start |-> DefaultAddress]

NoResult == [threw |-> FALSE, value |-> 0]

\* The variables a specification does not use keep these values.
IdleProcess ==
    /\ kernel = "none"
    /\ fileA = <<>>
    /\ fileB = <<>>
    /\ markers = EmptyBag
    /\ A = batch_data
    /\ B = batch_data
    /\ open = FALSE

IdleArith == result = NoResult

-----------------------------------------------------------------------------
(* SpecAdd: add<T>(start, stop, callback) for every start and stop *)

InitAdd ==
    /\ T \in Families
    /\ \E s \in Address(T), e \in Address(T) :
          /\ call = [fn |-> "add", start |-> s, stop |-> e]
          /\ start = s
          /\ stop = e
    /\ pc = "add"
    /\ out = <<>>
    /\ IdleProcess
    /\ IdleArith

\* One iteration of `while (start < stop)`: the inner loop finds i, the
\* callback gets the node, and add returns at the top of the address space or
\* moves start past the block.
add_iteration ==
    /\ pc = "add"
    /\ add_continues(T, start, stop)
    /\ LET i == add_prefix(T, start, stop)
       IN  /\ out' = Append(out, Delivered("", IPNode(start, i)))
           /\ IF add_at_top(T, start, i)
              THEN pc' = "returned" /\ start' = start
              ELSE pc' = "add" /\ start' = add_advance(T, start, i)
    /\ UNCHANGED <<T, call, kernel, fileA, fileB, markers, A, B, open, stop, result>>

\* The loop condition fails: add returns.
add_return ==
    /\ pc = "add"
    /\ ~ add_continues(T, start, stop)
    /\ pc' = "returned"
    /\ UNCHANGED <<T, call, kernel, fileA, fileB, markers, A, B, open, out,
                   start, stop, result>>

NextAdd == add_iteration \/ add_return

SpecAdd == InitAdd /\ [][NextAdd]_vars


-----------------------------------------------------------------------------
(* Kernels, markers and traverse<T> *)

\* UnionKernel::operator()
UnionKernel(A_, B_) == A_ > 0 \/ B_ > 0

\* IntersectionKernel::operator()
IntersectionKernel(A_, B_) == A_ > 0 /\ B_ > 0

\* DifferenceKernel with A >= 0 written for A == 0
DifferenceKernel_ge(A_, B_) == A_ >= 0 /\ B_ > 0

\* DifferenceKernel::operator()
DifferenceKernel(A_, B_) == A_ = 0 /\ B_ > 0

\* the kernels main selects by argv[1]
Kernels == {"union", "intersect", "diff"}

\* kernel(A, B): the virtual call
Kernel(k, A_, B_) ==
    IF k = "union" THEN UnionKernel(A_, B_)
    ELSE IF k = "intersect" THEN IntersectionKernel(A_, B_)
    ELSE DifferenceKernel(A_, B_)

\* kernel.symetric()
symetric(k) == k # "diff"

IPMarker(ip_, type_) == [ip |-> ip_, type |-> type_]

\* InsertAdapter::operator(): the two markers pushed for one node
InsertAdapter(t, node, start_, stop_) ==
    SetToBag({ IPMarker(network_zeros(t, node.ip, node.prefix), start_) })
    (+) SetToBag({ IPMarker(network_ones(t, node.ip, node.prefix), stop_) })

\* read_regexp: the callback runs for every matched line
RECURSIVE read_regexp(_, _, _, _)
read_regexp(t, file, start_, stop_) ==
    IF file = <<>> THEN EmptyBag
    ELSE InsertAdapter(t, Head(file), start_, stop_)
         (+) read_regexp(t, Tail(file), start_, stop_)

\* std::sort orders the markers by ip alone: the marker at iter is any marker
\* left whose ip no other marker precedes.
sorted_next(t, ms) ==
    { m \in BagToSet(ms) : \A n \in BagToSet(ms) : ~ lt(t, n.ip, m.ip) }

\* (iter + 1 != stop) && ((iter + 1)->ip == iter->ip), rest being the markers
\* after iter
traverse_skips(t, m, rest) ==
    \E n \in BagToSet(rest) : eq(t, n.ip, m.ip)

\* count_after with the decrement on a close marker left out
count_after_unclosed(count, type, opens, closes) ==
    IF type = opens THEN count + 1 ELSE count

\* the count of a track after the marker at iter
count_after(count, type, opens, closes) ==
    IF type = opens THEN count + 1
    ELSE IF type = closes THEN count - 1
    ELSE count

\* track with A_.start never assigned
track_start_unset(t, open_, ip_) == DefaultAddress

\* track: where a range that begins at this marker starts
track_start(t, open_, ip_) == IF open_ THEN ip_ ELSE next(t, ip_)

\* track: where a range that ends at this marker stops
track_stop(t, open_, ip_) == IF open_ THEN previous(t, ip_) ELSE ip_

\* The lambda `track`: the batch A_ after it, and the nodes its callback got.
track(t, k, open_, ip_, A_, B_) ==
    IF Kernel(k, A_.count, B_.count)
    THEN IF ~ A_.inside
         THEN [batch |-> [A_ EXCEPT !.inside = TRUE,
                                    !.start = track_start(t, open_, ip_)],
               nodes |-> <<>>]
         ELSE [batch |-> A_, nodes |-> <<>>]
    ELSE IF A_.inside
         THEN [batch |-> [A_ EXCEPT !.inside = FALSE],
               nodes |-> add(t, A_.start, track_stop(t, open_, ip_))]
         ELSE [batch |-> A_, nodes |-> <<>>]

\* the prefix_ of callback_a and callback_b as process passes them
callback_a(k) == IF symetric(k) THEN "" ELSE "+"

callback_b(k) == "-"

\* B.callback.empty(): process passes no callback_b for a symmetric kernel
callback_b_empty(k) == symetric(k)

-----------------------------------------------------------------------------
(* Spec: process<T>(file1, file2, regex, kernel) *)

MaxBlocks(t) == IF t = "IPv4" THEN MaxBlocks4 ELSE MaxBlocks6

\* the subnets a line can name: an address and a prefix length it is aligned to
Blocks(t) ==
    { node \in { IPNode(a, p) : a \in Address(t), p \in 0 .. bit_length(t) } :
        network_zeros(t, node.ip, node.prefix) = node.ip }

NodeKey(t, node) == node.ip * (bit_length(t) + 1) + node.prefix

\* The contents of an input file.  std::sort forgets the order of the lines,
\* so one order stands for each multiset of lines.
Files(t) ==
    { f \in UNION { [1 .. n -> Blocks(t)] : n \in 0 .. MaxBlocks(t) } :
        \A i \in 1 .. (Len(f) - 1) : NodeKey(t, f[i]) <= NodeKey(t, f[i+1]) }

Init ==
    /\ T \in Families
    /\ kernel \in Kernels
    /\ fileA \in Files(T)
    /\ fileB \in Files(T)
    /\ call = [fn |-> "process"]
    /\ pc = "process"
    /\ markers = EmptyBag
    /\ A = batch_data
    /\ B = batch_data
    /\ open = FALSE
    /\ out = <<>>
    /\ start = DefaultAddress
    /\ stop = DefaultAddress
    /\ IdleArith

\* process up to the call of traverse: both files are read into markers and
\* the markers sorted.
process_read_sort ==
    /\ pc = "process"
    /\ markers' = read_regexp(T, fileA, "ipm_a_open", "ipm_a_close")
                  (+) read_regexp(T, fileB, "ipm_b_open", "ipm_b_close")
    /\ pc' = "traverse"
    /\ UNCHANGED <<T, call, kernel, fileA, fileB, A, B, open, out, start, stop, result>>

\* One iteration of the loop of traverse over the marker at iter.
traverse_iteration ==
    /\ pc = "traverse"
    /\ \E m \in sorted_next(T, markers) :
          LET rest   == markers (-) SetToBag({m})
              A1     == [A EXCEPT !.count =
                            count_after(A.count, m.type, "ipm_a_open", "ipm_a_close")]
              B1     == [B EXCEPT !.count =
                            count_after(B.count, m.type, "ipm_b_open", "ipm_b_close")]
              open_  == m.type = "ipm_a_open" \/ m.type = "ipm_b_open"
              ta     == track(T, kernel, open_, m.ip, A1, B1)
              tb     == track(T, kernel, open_, m.ip, B1, ta.batch)
          IN  /\ markers' = rest
              /\ open' = open_
              /\ IF traverse_skips(T, m, rest)
                 THEN A' = A1 /\ B' = B1 /\ out' = out
                 ELSE IF callback_b_empty(kernel)
                 THEN /\ A' = ta.batch
                      /\ B' = B1
                      /\ out' = out \o DeliverAll(callback_a(kernel), ta.nodes)
                 ELSE /\ A' = ta.batch
                      /\ B' = tb.batch
                      /\ out' = out \o DeliverAll(callback_a(kernel), ta.nodes)
                                    \o DeliverAll(callback_b(kernel), tb.nodes)
    /\ UNCHANGED <<T, pc, call, kernel, fileA, fileB, start, stop, result>>

\* iter == stop: traverse and process return.
traverse_return ==
    /\ pc = "traverse"
    /\ markers = EmptyBag
    /\ pc' = "done"
    /\ UNCHANGED <<T, call, kernel, fileA, fileB, markers, A, B, open, out,
                   start, stop, result>>

Next == process_read_sort \/ traverse_iteration \/ traverse_return

Spec == Init /\ [][Next]_vars

-----------------------------------------------------------------------------
(* SpecArith: one call of the prefix arithmetic with any prefix argument *)

\* How far outside [0, bit_length] the prefix arguments tried reach.
PrefixMargin == 1

Prefixes(t) == (0 - PrefixMargin) .. (bit_length(t) + PrefixMargin)

Returned(v) == [threw |-> FALSE, value |-> v]

\* throw std::runtime_error("Invalid prefix size")
InvalidPrefix == [threw |-> TRUE, value |-> 0]

\* The value of a shift whose count is negative or not less than the width of
\* the word is undefined: any word.
UndefinedShift(w) == 0 .. AllOnes(w)

\* IPv4::network_zeros for any prefix: no test of the prefix; outside
\* [0, 32] the shift count 32 - prefix is out of range.
IPv4_network_zeros_call(value, prefix) ==
    IF prefix \in 0 .. IPv4_bit_length
    THEN { Returned(IPv4_network_zeros(value, prefix)) }
    ELSE { Returned(BitAnd(value, m)) : m \in UndefinedShift(Bits32) }

IPv4_network_ones_call(value, prefix) ==
    IF prefix \in 0 .. IPv4_bit_length
    THEN { Returned(IPv4_network_ones(value, prefix)) }
    ELSE { Returned(BitOr(value, BitNot(m, Bits32))) : m \in UndefinedShift(Bits32) }

\* IPv4::next for any prefix: throws outside [0, 32]; at 0 the count of
\* 1 << (32 - prefix) is the width of the word.
IPv4_next_call(value, prefix) ==
    IF prefix < 0 \/ prefix > IPv4_bit_length THEN { InvalidPrefix }
    ELSE IF prefix = 0
    THEN { Returned((value + m) % Pow2(Bits32)) : m \in UndefinedShift(Bits32) }
    ELSE { Returned(IPv4_next(value, prefix)) }

IPv4_previous_call(value, prefix) ==
    IF prefix < 0 \/ prefix > IPv4_bit_length THEN { InvalidPrefix }
    ELSE IF prefix = 0
    THEN { Returned((value + Pow2(Bits32) - m) % Pow2(Bits32)) : m \in UndefinedShift(Bits32) }
    ELSE { Returned(IPv4_previous(value, prefix)) }

\* IPv6::network_zeros for any prefix: above 128 the count 128 - prefix is
\* negative, below 0 the count 64 - prefix exceeds 63.
IPv6_network_zeros_call(a, prefix) ==
    IF prefix \in 0 .. IPv6_bit_length
    THEN { Returned(IPv6_network_zeros(a, prefix)) }
    ELSE IF prefix > Bits64
    THEN { Returned(IPv6(network(a), BitAnd(host(a), m))) : m \in UndefinedShift(Bits64) }
    ELSE { Returned(IPv6(BitAnd(network(a), m), 0)) : m \in UndefinedShift(Bits64) }

IPv6_network_ones_call(a, prefix) ==
    IF prefix \in 0 .. IPv6_bit_length
    THEN { Returned(IPv6_network_ones(a, prefix)) }
    ELSE IF prefix > Bits64
    THEN { Returned(IPv6(network(a), BitOr(host(a), BitNot(m, Bits64)))) :
               m \in UndefinedShift(Bits64) }
    ELSE { Returned(IPv6(BitOr(network(a), BitNot(m, Bits64)), AllOnes(Bits64))) :
               m \in UndefinedShift(Bits64) }

\* IPv6::next for any prefix: throws outside [0, 128]; at 0 the count of
\* 0x1 << (64 - prefix) is the width of the word.
IPv6_next_call(a, prefix) ==
    IF prefix < 0 \/ prefix > IPv6_bit_length THEN { InvalidPrefix }
    ELSE IF prefix = 0
    THEN { Returned(IPv6((network(a) + m) % Pow2(Bits64), host(a))) :
               m \in UndefinedShift(Bits64) }
    ELSE { Returned(IPv6_next(a, prefix)) }

IPv6_previous_call(a, prefix) ==
    IF prefix < 0 \/ prefix > IPv6_bit_length THEN { InvalidPrefix }
    ELSE IF prefix = 0
    THEN { Returned(IPv6((network(a) + Pow2(Bits64) - m) % Pow2(Bits64), host(a))) :
               m \in UndefinedShift(Bits64) }
    ELSE { Returned(IPv6_previous(a, prefix)) }

network_zeros_call(t, a, prefix) ==
    IF t = "IPv4" THEN IPv4_network_zeros_call(a, prefix)
    ELSE IPv6_network_zeros_call(a, prefix)

network_ones_call(t, a, prefix) ==
    IF t = "IPv4" THEN IPv4_network_ones_call(a, prefix)
    ELSE IPv6_network_ones_call(a, prefix)

next_call(t, a, prefix) ==
    IF t = "IPv4" THEN IPv4_next_call(a, prefix) ELSE IPv6_next_call(a, prefix)

previous_call(t, a, prefix) ==
    IF t = "IPv4" THEN IPv4_previous_call(a, prefix) ELSE IPv6_previous_call(a, prefix)

ArithFunctions ==
    {"network_zeros", "network_ones", "next", "previous", "InsertAdapter"}

InitArith ==
    /\ T \in Families
    /\ \E fn \in ArithFunctions, a \in Address(T), p \in Prefixes(T) :
          call = [fn |-> fn, ip |-> a, prefix |-> p]
    /\ pc = "call"
    /\ result = NoResult
    /\ out = <<>>
    /\ start = DefaultAddress
    /\ stop = DefaultAddress
    /\ IdleProcess

\* The call returns r or throws.
Outcome(r) ==
    /\ result' = r
    /\ pc' = IF r.threw THEN "thrown" ELSE "returned"
    /\ UNCHANGED <<T, call, kernel, fileA, fileB, markers, A, B, open, out, start, stop>>

call_network_zeros ==
    /\ pc = "call" /\ call.fn = "network_zeros"
    /\ \E r \in network_zeros_call(T, call.ip, call.prefix) : Outcome(r)

call_network_ones ==
    /\ pc = "call" /\ call.fn = "network_ones"
    /\ \E r \in network_ones_call(T, call.ip, call.prefix) : Outcome(r)

call_next ==
    /\ pc = "call" /\ call.fn = "next"
    /\ \E r \in next_call(T, call.ip, call.prefix) : Outcome(r)

call_previous ==
    /\ pc = "call" /\ call.fn = "previous"
    /\ \E r \in previous_call(T, call.ip, call.prefix) : Outcome(r)

\* InsertAdapter::operator() on the node (call.ip, call.prefix), as read_regexp
\* calls it with whatever atoi made of the prefix: two markers are pushed.
call_InsertAdapter ==
    /\ pc = "call" /\ call.fn = "InsertAdapter"
    /\ \E z \in network_zeros_call(T, call.ip, call.prefix),
          o \in network_ones_call(T, call.ip, call.prefix) :
          markers' = SetToBag({ IPMarker(z.value, "ipm_a_open") })
                     (+) SetToBag({ IPMarker(o.value, "ipm_a_close") })
    /\ pc' = "returned"
    /\ UNCHANGED <<T, call, kernel, fileA, fileB, A, B, open, out, start, stop, result>>

NextArith ==
    \/ call_network_zeros
    \/ call_network_ones
    \/ call_next
    \/ call_previous
    \/ call_InsertAdapter

SpecArith == InitArith /\ [][NextArith]_vars

-----------------------------------------------------------------------------
(* What the claims speak of, in plain arithmetic on addresses *)

\* number of addresses of a block of the given prefix length
BlockSize(t, prefix) == Pow2(bit_length(t) - prefix)

Floor(t, a, prefix) == (a \div BlockSize(t, prefix)) * BlockSize(t, prefix)

Ceiling(t, a, prefix) == Floor(t, a, prefix) + BlockSize(t, prefix) - 1

MaxAddress(t) == Pow2(bit_length(t)) - 1

Aligned(t, node) == node.ip = Floor(t, node.ip, node.prefix)

\* the addresses of the block (node.ip, node.prefix)
BlockAddresses(t, node) ==
    Floor(t, node.ip, node.prefix) .. Ceiling(t, node.ip, node.prefix)

\* the addresses covered by the blocks of a sequence
Covered(t, nodes) ==
    UNION { BlockAddresses(t, nodes[k]) : k \in 1 .. Len(nodes) }

\* two blocks are the two halves of one aligned block
Mergeable(t, n1, n2) ==
    /\ n1.prefix = n2.prefix
    /\ n1.prefix > 0
    /\ n1.ip = Floor(t, n1.ip, n1.prefix - 1)
    /\ n2.ip = n1.ip + BlockSize(t, n1.prefix)

-----------------------------------------------------------------------------
(* Claims on add, under SpecAdd *)

\* C4 (as claimed): once add(start, stop) with start <= stop has returned, the
\* blocks it emitted cover exactly the closed interval [start, stop].
C4_AddCoversInterval ==
    (call.fn = "add" /\ pc = "returned" /\ call.start <= call.stop)
        => Covered(T, out) = call.start .. call.stop

\* C5: every block add emits is aligned and lies inside [start, stop]; the
\* first begins at start and each later one at the successor of the previous
\* block's ceiling, so addresses ascend strictly and no two blocks overlap.
C5_AddBlocksAlignedContiguous ==
    call.fn = "add" =>
        /\ \A k \in 1 .. Len(out) :
              /\ Aligned(T, out[k])
              /\ call.start <= out[k].ip
              /\ Ceiling(T, out[k].ip, out[k].prefix) <= call.stop
              /\ k = 1 => out[k].ip = call.start
              /\ k > 1 => /\ out[k].ip = Ceiling(T, out[k-1].ip, out[k-1].prefix) + 1
                          /\ out[k-1].ip < out[k].ip
        /\ \A j, k \in 1 .. Len(out) :
              j # k => BlockAddresses(T, out[j]) \cap BlockAddresses(T, out[k]) = {}

\* C5's case: a decomposition of three or more blocks has been emitted.
C5_Witness ==
    call.fn = "add" /\ pc = "returned" /\ Len(out) >= 3

\* C6: every emitted block is the largest aligned block that starts at the
\* cursor and does not pass stop (no smaller prefix length is aligned there
\* and fits), and no two consecutive blocks are the halves of a larger one.
C6_AddEmitsLargestBlock ==
    call.fn = "add" =>
        /\ \A k \in 1 .. Len(out) :
              \A q \in 0 .. (out[k].prefix - 1) :
                  ~ ( /\ out[k].ip = Floor(T, out[k].ip, q)
                      /\ Ceiling(T, out[k].ip, q) <= call.stop )
        /\ \A k \in 1 .. (Len(out) - 1) : ~ Mergeable(T, out[k], out[k+1])

\* C6's case: blocks of different sizes, one of them neither the whole space
\* nor a single address, and a wider block was ruled out by stop alone.
C6_Witness ==
    /\ call.fn = "add" /\ pc = "returned" /\ Len(out) >= 2
    /\ \E k \in 1 .. Len(out) :
          /\ out[k].prefix > 0
          /\ out[k].prefix < bit_length(T)
          /\ out[k].ip = Floor(T, out[k].ip, out[k].prefix - 1)

\* C7: add(0, max) emits the one block (0, prefix 0) and returns at once: it
\* is never back in its loop with a block emitted, start is not advanced.
C7_AddFullSpace ==
    (call.fn = "add" /\ call.start = 0 /\ call.stop = MaxAddress(T)) =>
        /\ pc = "add" => (out = <<>> /\ start = 0)
        /\ pc = "returned" => (out = << Delivered("", IPNode(0, 0)) >> /\ start = 0)

\* C7's case: the full space has been decomposed.
C7_Witness ==
    /\ call.fn = "add" /\ call.start = 0 /\ call.stop = MaxAddress(T)
    /\ pc = "returned"
    /\ Len(out) = 1

-----------------------------------------------------------------------------
(* Claims on the sweep, under Spec *)

\* how many blocks of an input file cover address x
CountCover(t, file, x) ==
    Cardinality({ k \in 1 .. Len(file) : x \in BlockAddresses(t, file[k]) })

InA(x) == CountCover(T, fileA, x) > 0

InB(x) == CountCover(T, fileB, x) > 0

\* the blocks delivered with one tag, in order
Tagged(tag) == SelectSeq(out, LAMBDA d : d.tag = tag)

\* The aligned blocks inside a set of addresses that no larger aligned block
\* inside it contains: the least set of aligned blocks covering exactly S.
MaximalBlocks(t, S) ==
    { b \in Blocks(t) :
        /\ BlockAddresses(t, b) \subseteq S
        /\ b.prefix > 0 =>
              ~ (BlockAddresses(t, IPNode(Floor(t, b.ip, b.prefix - 1), b.prefix - 1))
                   \subseteq S) }

\* the blocks of a sequence are a minimal representation of what they cover
Minimal(t, nodes) ==
    /\ Len(nodes) = Cardinality(MaximalBlocks(t, Covered(t, nodes)))
    /\ \A j, k \in 1 .. Len(nodes) : ~ Mergeable(t, nodes[j], nodes[k])

\* C1 (as claimed): after a union run the emitted blocks cover exactly the
\* addresses in A or B, after an intersect run exactly those in both.
C1_SymmetricKernelCoverage ==
    (call.fn = "process" /\ pc = "done") =>
        /\ kernel = "union" =>
              Covered(T, out) = { x \in Address(T) : InA(x) \/ InB(x) }
        /\ kernel = "intersect" =>
              Covered(T, out) = { x \in Address(T) : InA(x) /\ InB(x) }

\* C2 (as claimed): after a diff run the blocks tagged "+" cover exactly the
\* addresses in A and not in B, those tagged "-" exactly the addresses in B
\* and not in A.
C2_DifferenceOrientation ==
    (call.fn = "process" /\ pc = "done" /\ kernel = "diff") =>
        /\ Covered(T, Tagged("+")) = { x \in Address(T) : InA(x) /\ ~ InB(x) }
        /\ Covered(T, Tagged("-")) = { x \in Address(T) : InB(x) /\ ~ InA(x) }

\* C3 (as claimed): the blocks a completed run emitted (with one tag) are a
\* minimal set of aligned blocks for the addresses they cover; no two of them
\* are the halves of one aligned block.
C3_OutputMinimal ==
    (call.fn = "process" /\ pc = "done") =>
        \A tag \in {"", "+", "-"} : Minimal(T, Tagged(tag))

\* C8: a diff run whose two inputs hold the same blocks delivers nothing, on
\* either output, at any point of the run.
C8_DifferenceOfEqualInputsEmpty ==
    (call.fn = "process" /\ kernel = "diff" /\ fileA = fileB) => out = <<>>

\* C8's case: a diff run over twice the same two blocks, one nested in the
\* other and a single address, has completed.
C8_Witness ==
    /\ call.fn = "process" /\ pc = "done" /\ kernel = "diff"
    /\ fileA = fileB
    /\ Len(fileA) = 2
    /\ fileA[1].prefix < fileA[2].prefix
    /\ fileA[2].prefix = bit_length(T)
    /\ BlockAddresses(T, fileA[2]) \subseteq BlockAddresses(T, fileA[1])

\* C9: the blocks delivered, taken in order of delivery whatever their tag,
\* have strictly ascending addresses.
C9_OutputAscending ==
    call.fn = "process" =>
        \A k \in 1 .. (Len(out) - 1) : out[k].ip < out[k+1].ip

\* C9's case: a diff run has delivered blocks of both tags, three or more.
C9_Witness ==
    /\ call.fn = "process" /\ pc = "done" /\ kernel = "diff"
    /\ Len(out) >= 3
    /\ Tagged("+") # <<>>
    /\ Tagged("-") # <<>>

-----------------------------------------------------------------------------
(* Claims on the prefix arithmetic, under SpecArith *)

\* C10 (as claimed): network_zeros, network_ones, next and previous called
\* with a prefix outside [0, bit_length] throw the invalid-prefix error and
\* return no address, and InsertAdapter on such a node pushes no marker.
C10_InvalidPrefixRejected ==
    ( /\ call.fn \in ArithFunctions
      /\ pc # "call"
      /\ ~ (call.prefix \in 0 .. bit_length(T)) )
    => (pc = "thrown" /\ result = InvalidPrefix /\ markers = EmptyBag)

-----------------------------------------------------------------------------
(* Claims on the state of the sweep, under Spec *)

\* every marker process pushed, whatever is left of them
AllMarkers ==
    read_regexp(T, fileA, "ipm_a_open", "ipm_a_close")
    (+) read_regexp(T, fileB, "ipm_b_open", "ipm_b_close")

\* the markers the loop of traverse has been over
Counted == AllMarkers (-) markers

\* the address of the marker of the last iteration: markers are met in
\* ascending order, so it is the greatest address counted
LastIp ==
    (CHOOSE m \in BagToSet(Counted) :
        \A n \in BagToSet(Counted) : n.ip <= m.ip).ip

\* the markers sharing the address of the last iteration
LastGroup == { m \in BagToSet(AllMarkers) : m.ip = LastIp }

\* the last iteration went on to evaluate the kernel: it was over the last
\* marker of its group
KernelEvaluated ==
    /\ call.fn = "process"
    /\ pc \in {"traverse", "done"}
    /\ Counted # EmptyBag
    /\ \A m \in BagToSet(markers) : m.ip # LastIp

\* C11 (as claimed): when the kernel is evaluated for a group of markers of
\* one address, `open` is true exactly when the group holds an A_OPEN or
\* B_OPEN marker, in whatever order the sort left the group.
C11_OpenIffGroupHasOpen ==
    KernelEvaluated =>
        (open <=> \E m \in LastGroup : m.type \in {"ipm_a_open", "ipm_b_open"})

\* C12: when traverse has returned both counts are 0 and neither track is
\* inside a range: every range that was started has been flushed.
C12_NothingLeftOpen ==
    (call.fn = "process" /\ pc = "done") =>
        /\ A.count = 0
        /\ B.count = 0
        /\ ~ A.inside
        /\ ~ B.inside

\* C12's case: a diff run over two blocks a side has returned after both
\* tracks started and flushed a range.
C12_Witness ==
    /\ call.fn = "process" /\ pc = "done" /\ kernel = "diff"
    /\ Len(fileA) = 2
    /\ Len(fileB) = 2
    /\ Tagged("+") # <<>>
    /\ Tagged("-") # <<>>

=============================================================================
